---------------------------- MODULE Spec2Model ----------------------------
(***************************************************************************)
(* A model of html5.py, the HTML5 + SEO auditor: the robots-directive      *)
(* parser, the URL entry handling of the Scan button, the audit worker     *)
(* (browser fetch, analyzer, vnu.jar validator client, report rendering)   *)
(* and the one-time download of vnu.jar.                                   *)
(*                                                                         *)
(* Python strings are sequences of one-character strings, so that lower(), *)
(* strip(), startswith() and the `in` substring test are computed and not  *)
(* assumed.                                                               *)
(***************************************************************************)
EXTENDS Integers, Sequences, FiniteSets, TLC

\* None where a Python string is expected: no string has a character "<None>"
None == <<"<None>">>

(***************************************************************************)
(* Strings                                                                 *)
(***************************************************************************)
UpperLetters == <<"A","B","C","D","E","F","G","H","I","J","K","L","M",
                  "N","O","P","Q","R","S","T","U","V","W","X","Y","Z">>
LowerLetters == <<"a","b","c","d","e","f","g","h","i","j","k","l","m",
                  "n","o","p","q","r","s","t","u","v","w","x","y","z">>

\* str.lower() on one character
LowerChar(c) ==
    IF \E i \in 1..Len(UpperLetters) : UpperLetters[i] = c
    THEN LowerLetters[CHOOSE i \in 1..Len(UpperLetters) : UpperLetters[i] = c]
    ELSE c

\* str.lower()
Lower(s) == [i \in 1..Len(s) |-> LowerChar(s[i])]

\* the `needle in hay` substring test of Python strings
Contains(hay, needle) ==
    \E i \in 0..(Len(hay) - Len(needle)) :
        SubSeq(hay, i + 1, i + Len(needle)) = needle

\* str.startswith(prefix)
StartsWith(s, prefix) ==
    /\ Len(prefix) <= Len(s)
    /\ SubSeq(s, 1, Len(prefix)) = prefix

RECURSIVE Flatten(_)
\* the concatenation of a sequence of strings
Flatten(parts) ==
    IF parts = <<>> THEN <<>> ELSE Head(parts) \o Flatten(Tail(parts))

\* every sequence over S of length at most n
SeqsUpTo(S, n) == UNION {[1..k -> S] : k \in 0..n}

\* the characters str.strip() removes
Whitespace == {" ", "\n", "\t"}

\* str.strip()
Strip(s) ==
    LET keep == {i \in 1..Len(s) : s[i] \notin Whitespace}
    IN  IF keep = {} THEN <<>>
        ELSE SubSeq(s, CHOOSE i \in keep : \A j \in keep : i <= j,
                       CHOOSE i \in keep : \A j \in keep : j <= i)

(***************************************************************************)
(* json.loads, on a text given as its sequence of lexemes: the punctuation *)
(* { } [ ] : , the literal null, string literals, white space; any other   *)
(* lexeme is text no JSON value contains.                                  *)
(***************************************************************************)
JsonStringTokens == {"'messages'", "'type'", "'error'", "'message'", "'x'", "'y'"}

JNull == [t |-> "null"]
JStr(s) == [t |-> "str", s |-> s]
JArr(items) == [t |-> "arr", items |-> items]
JObj(keys, vals) == [t |-> "obj", keys |-> keys, vals |-> vals]

JFail == [ok |-> FALSE]
JOk(val, next) == [ok |-> TRUE, val |-> val, next |-> next]

\* the first position from i on that holds no white space
SkipWs(toks, i) ==
    LET rest == {j \in i..Len(toks) : toks[j] \notin Whitespace}
    IN  IF rest = {} THEN Len(toks) + 1
        ELSE CHOOSE j \in rest : \A k \in rest : j <= k

RECURSIVE ParseValue(_, _)
RECURSIVE ParseElements(_, _, _)
RECURSIVE ParseMembers(_, _, _, _)

\* one JSON value starting at position i0
ParseValue(toks, i0) ==
    LET i == SkipWs(toks, i0)
    IN  IF i > Len(toks) THEN JFail
        ELSE IF toks[i] = "null" THEN JOk(JNull, i + 1)
        ELSE IF toks[i] \in JsonStringTokens THEN JOk(JStr(<<toks[i]>>), i + 1)
        ELSE IF toks[i] = "["
             THEN LET j == SkipWs(toks, i + 1)
                  IN  IF j <= Len(toks) /\ toks[j] = "]"
                      THEN JOk(JArr(<<>>), j + 1)
                      ELSE ParseElements(toks, i + 1, <<>>)
        ELSE IF toks[i] = "{"
             THEN LET j == SkipWs(toks, i + 1)
                  IN  IF j <= Len(toks) /\ toks[j] = "}"
                      THEN JOk(JObj(<<>>, <<>>), j + 1)
                      ELSE ParseMembers(toks, i + 1, <<>>, <<>>)
        ELSE JFail

\* the elements of an array, after its [ or a comma
ParseElements(toks, i, acc) ==
    LET r == ParseValue(toks, i)
    IN  IF ~r.ok THEN JFail
        ELSE LET j == SkipWs(toks, r.next)
             IN  IF j > Len(toks) THEN JFail
                 ELSE IF toks[j] = ","
                      THEN ParseElements(toks, j + 1, Append(acc, r.val))
                 ELSE IF toks[j] = "]"
                      THEN JOk(JArr(Append(acc, r.val)), j + 1)
                 ELSE JFail

\* the members of an object, after its { or a comma
ParseMembers(toks, i0, keys, vals) ==
    LET i == SkipWs(toks, i0)
        c == SkipWs(toks, i + 1)
    IN  IF i > Len(toks) \/ c > Len(toks) THEN JFail
        ELSE IF toks[i] \notin JsonStringTokens \/ toks[c] # ":" THEN JFail
        ELSE LET r == ParseValue(toks, c + 1)
             IN  IF ~r.ok THEN JFail
                 ELSE LET j == SkipWs(toks, r.next)
                      IN  IF j > Len(toks) THEN JFail
                          ELSE IF toks[j] = ","
                               THEN ParseMembers(toks, j + 1, Append(keys, toks[i]),
                                                 Append(vals, r.val))
                          ELSE IF toks[j] = "}"
                               THEN JOk(JObj(Append(keys, toks[i]), Append(vals, r.val)),
                                        j + 1)
                          ELSE JFail

\* json.loads(text): [ok |-> TRUE, val |-> v], or [ok |-> FALSE] where it raises
json_loads(toks) ==
    LET r == ParseValue(toks, 1)
    IN  IF r.ok /\ SkipWs(toks, r.next) > Len(toks)
        THEN [ok |-> TRUE, val |-> r.val]
        ELSE JFail

(***************************************************************************)
(* parse_robots_meta                                                       *)
(***************************************************************************)
S_noindex   == <<"n","o","i","n","d","e","x">>
S_nofollow  == <<"n","o","f","o","l","l","o","w">>
S_nosnippet == <<"n","o","s","n","i","p","p","e","t">>
S_mip       == <<"m","a","x","-","i","m","a","g","e","-","p","r","e","v","i","e","w",":">>
S_large     == <<"l","a","r","g","e">>
S_standard  == <<"s","t","a","n","d","a","r","d">>
S_none      == <<"n","o","n","e">>

\* the pieces robots content strings are built from: whole directives, a
\* directive in mixed case, and halves that join into a directive only
\* across a piece boundary
RobotsFragments ==
    { S_noindex, <<"N","o","I","n","d","e","x">>, S_nofollow,
      <<"N","O","F","O","L","L","O","W">>, S_nosnippet,
      <<"n","o">>, <<"i","n","d","e","x">>, <<"s","n","i","p","p","e","t">>,
      <<",", " ">>, S_mip, S_large, S_standard, S_none, <<"a","l","l">> }

MaxRobotsParts == 3

\* the content attribute values the robots meta tag is tried with; None is a
\* meta tag with no content attribute, or no meta tag
RobotsInputs ==
    {None} \cup {Flatten(p) : p \in SeqsUpTo(RobotsFragments, MaxRobotsParts)}

RobotsKeys == {"Indexing", "Following Links", "Snippets", "Image Previews"}

\* a parse_robots_meta that forgets the case folding of its argument
parse_robots_meta_nolower(content) ==
    LET c == IF content = None THEN <<>> ELSE content
    IN  [k \in RobotsKeys |->
            CASE k = "Indexing" ->
                    IF ~Contains(c, S_noindex) THEN "Allowed" ELSE "Disallowed"
              [] k = "Following Links" ->
                    IF ~Contains(c, S_nofollow) THEN "Allowed" ELSE "Disallowed"
              [] k = "Snippets" ->
                    IF ~Contains(c, S_nosnippet) THEN "Allowed" ELSE "Disallowed"
              [] OTHER ->
                    IF Contains(c, S_mip \o S_large) THEN "Large"
                    ELSE IF Contains(c, S_mip \o S_standard) THEN "Standard"
                    ELSE IF Contains(c, S_mip \o S_none) THEN "None"
                    ELSE "Not specified"]

parse_robots_meta(content) ==
    LET c == Lower(IF content = None THEN <<>> ELSE content)
    IN  [k \in RobotsKeys |->
            CASE k = "Indexing" ->
                    IF ~Contains(c, S_noindex) THEN "Allowed" ELSE "Disallowed"
              [] k = "Following Links" ->
                    IF ~Contains(c, S_nofollow) THEN "Allowed" ELSE "Disallowed"
              [] k = "Snippets" ->
                    IF ~Contains(c, S_nosnippet) THEN "Allowed" ELSE "Disallowed"
              [] OTHER ->
                    IF Contains(c, S_mip \o S_large) THEN "Large"
                    ELSE IF Contains(c, S_mip \o S_standard) THEN "Standard"
                    ELSE IF Contains(c, S_mip \o S_none) THEN "None"
                    ELSE "Not specified"]

\* audit_website_selenium, lines 202-203: the content handed to the parser
robots_content_of(meta) ==
    IF meta # None /\ meta # <<>> THEN meta ELSE <<>>

(***************************************************************************)
(* run_audit: the URL entry                                                *)
(***************************************************************************)
S_http       == <<"h","t","t","p">>
S_httpPrefix == <<"h","t","t","p",":","/","/">>
S_host       == <<"a",".","b">>

\* the texts the operator leaves in the URL entry before pressing Scan
UrlInputs ==
    { <<>>, <<" ", " ">>, S_host, <<" ">> \o S_host \o <<" ">>,
      S_httpPrefix \o S_host, <<"h","t","t","p","s",":","/","/">> \o S_host,
      <<"h","t","t","p","b","i","n",".","o","r","g">>,
      <<"f","t","p",":","/","/">> \o S_host }

\* run_audit, lines 401-402
normalize_url(url) ==
    IF ~StartsWith(url, S_http) THEN S_httpPrefix \o url ELSE url

(***************************************************************************)
(* validate_with_vnu: the reading of the finished subprocess               *)
(***************************************************************************)
\* one diagnostic of vnu's JSON output
S_msg == <<"{", "'type'", ":", "'error'", ",", "'message'", ":", "'x'", "}">>

\* what the subprocess may leave on stdout or stderr
VnuOutputs ==
    { <<>>,
      <<" ", "\n">>,
      <<"{", "}">>,
      <<"{", "'messages'", ":", "[", "]", "}">>,
      <<"{", "'messages'", ":", "null", "}">>,
      <<"{", "'messages'", ":", "[">> \o S_msg \o <<"]", "}", "\n">>,
      <<"{", "'messages'", ":", "[">> \o S_msg \o <<",">> \o S_msg \o <<"]", "}">>,
      <<"[", "]">>,
      <<"Picked up _JAVA_OPTIONS", "\n",
        "{", "'messages'", ":", "[">> \o S_msg \o <<"]", "}">>,
      <<"{", "'messages'", ":", "[">> \o S_msg,
      <<"Error: Unable to access jarfile">> }

VnuStdouts == { <<>>, <<"{", "}">>, <<"\n", "usage">> }

ReturnCodes == {0, 1, 2}

\* dict.get(key, default) on a parsed JSON object: the last member named key
DictGet(obj, key, default) ==
    LET at == {i \in 1..Len(obj.keys) : obj.keys[i] = key}
    IN  IF at = {} THEN default
        ELSE obj.vals[CHOOSE i \in at : \A j \in at : j <= i]

\* the ValidationResult dictionary
Validation(available, valid, messages, error) ==
    [available |-> available, valid |-> valid, messages |-> messages, error |-> error]

NoValidation == Validation("unset", "unset", JArr(<<>>), None)

\* the record the except clause of lines 122-123 builds
SyntheticMessage(raw) ==
    JObj(<<"'type'", "'message'">>, <<JStr(<<"'error'">>), JStr(raw)>>)

\* lines 113-124 with the except clause of lines 122-123 leaving the list empty
vnu_interpret_nofallback(returncode, stdout, stderr) ==
    LET raw == IF Strip(stderr) # <<>> THEN Strip(stderr) ELSE Strip(stdout)
        parsed == json_loads(raw)
    IN  IF returncode = 0
        THEN Validation("True", "True", JArr(<<>>), None)
        ELSE Validation("True", "False",
                        IF parsed.ok /\ parsed.val.t = "obj"
                        THEN DictGet(parsed.val, "'messages'", JArr(<<>>))
                        ELSE JArr(<<>>),
                        None)

\* lines 113-124: the result for a subprocess that ran to its end.  A parsed
\* value that is no object has no get() and takes the except clause too.
vnu_interpret(returncode, stdout, stderr) ==
    LET raw == IF Strip(stderr) # <<>> THEN Strip(stderr) ELSE Strip(stdout)
        parsed == json_loads(raw)
    IN  IF returncode = 0
        THEN Validation("True", "True", JArr(<<>>), None)
        ELSE Validation("True", "False",
                        IF parsed.ok /\ parsed.val.t = "obj"
                        THEN DictGet(parsed.val, "'messages'", JArr(<<>>))
                        ELSE JArr(<<SyntheticMessage(raw)>>),
                        None)

\* what validate_with_vnu's try block may raise: [type, msg]
VnuCreateErrors == {[type |-> "OSError", msg |-> <<"No usable temporary directory">>]}
VnuWriteErrors ==
    { [type |-> "OSError", msg |-> <<"No space left on device">>],
      [type |-> "UnicodeEncodeError", msg |-> <<"surrogates not allowed">>] }
VnuRunErrors ==
    { [type |-> "TimeoutExpired", msg |-> <<"timed out after 30 seconds">>],
      [type |-> "OSError", msg |-> <<"Exec format error">>] }

\* lines 125-128 with the second except clause missing: [raised, result]
vnu_except_timeout_only(exc) ==
    IF exc.type = "TimeoutExpired"
    THEN [raised |-> FALSE,
          result |-> Validation("True", "None", JArr(<<>>), <<"Validation timed out.">>)]
    ELSE [raised |-> TRUE, result |-> NoValidation]

\* lines 125-128, the except clauses: the exception leaves validate_with_vnu
\* (raised) or becomes its result
vnu_except(exc) ==
    IF exc.type = "TimeoutExpired"
    THEN [raised |-> FALSE,
          result |-> Validation("True", "None", JArr(<<>>), <<"Validation timed out.">>)]
    ELSE [raised |-> FALSE,
          result |-> Validation("True", "None", JArr(<<>>), exc.msg)]

\* os.unlink / os.remove of a file this process created: Windows refuses to
\* remove a file the process still holds open, POSIX removes it
unlink_ok(os_name, handle) == ~(os_name = "win" /\ handle = "open")

(***************************************************************************)
(* audit_website_selenium and the report                                   *)
(***************************************************************************)
FetchKeys == {"fetch_duration_ms", "screenshot", "page_load_ms", "raw_html"}
AnalyzerKeys ==
    { "DOCTYPE", "lang", "title", "h1s", "canonical", "images_total",
      "images_with_alt", "images_list", "robots_content", "robots_parsed",
      "og_tags", "twitter_tags" }

\* the result dictionary: its keys, and the values the report depends on.
\* page_load_ms 0 stands for None (the code never stores a value <= 0).
NoResults ==
    [keys |-> {}, error |-> None, page_load_ms |-> 0, validation |-> NoValidation]

\* lines 182-183 returning the error beside what the fetch had measured
audit_fetch_failed_partial(msg) ==
    [NoResults EXCEPT !.keys = {"error", "page_load_ms"},
                      !.error = <<"Failed to fetch URL with Selenium: ">> \o msg]

\* lines 182-183: the result of an audit whose selenium_fetch raised
audit_fetch_failed(msg) ==
    [NoResults EXCEPT !.keys = {"error"},
                      !.error = <<"Failed to fetch URL with Selenium: ">> \o msg]

\* what the driver raises, by the call that raised
FetchErrors ==
    [ driver_start |-> <<"SessionNotCreatedException">>,
      navigation   |-> <<"WebDriverException: net::ERR_NAME_NOT_RESOLVED">>,
      page_source  |-> <<"WebDriverException: chrome not reachable">>,
      screenshot   |-> <<"WebDriverException: screenshot failed">> ]

\* the values the navigation-timing script returns (null reads as 0)
PerfValues == {-5, 0, 1200}

\* What the environment may answer a worker with: the timing script's values,
\* the validator's exit codes and output, the exceptions of the validator's
\* calls, and whether the screenshot decodes.  AllInputs is every answer;
\* FewInputs is one answer per path of the code, for the runs of several audits.
AllInputs ==
    [ perf |-> PerfValues, rc |-> ReturnCodes, out |-> VnuStdouts, err |-> VnuOutputs,
      create_errors |-> VnuCreateErrors, write_errors |-> VnuWriteErrors,
      run_errors |-> VnuRunErrors, decode |-> BOOLEAN ]

FewInputs ==
    [ perf |-> {1200}, rc |-> {0, 1}, out |-> {<<>>},
      err |-> {<<>>, <<"{", "'messages'", ":", "[">> \o S_msg \o <<"]", "}", "\n">>},
      create_errors |-> VnuCreateErrors,
      write_errors |-> {[type |-> "OSError", msg |-> <<"No space left on device">>]},
      run_errors |-> VnuRunErrors, decode |-> {TRUE} ]

\* line 154
page_load_of(perf) == IF perf # 0 /\ perf > 0 THEN perf ELSE 0

\* find_java_executable: the bundled runtime, else a system java that runs
find_java_executable(embedded_ok, system_runs) ==
    IF embedded_ok THEN <<"validator/jre/bin/java">>
    ELSE IF system_runs THEN <<"java">>
    ELSE None

Line(l, text) == [line |-> l, text |-> text]

\* update_ui, lines 383-387: the text of one diagnostic
TipText(m) ==
    LET msg == DictGet(m, "'message'", JStr(<<>>))
    IN  IF msg.t = "str" /\ msg.s # <<>> THEN msg.s ELSE <<"str(m)">>

\* update_ui, lines 372-389: the validation section.  done is FALSE where
\* len() of a messages value that is no list raises.
RenderValidation(v) ==
    IF v.available # "True"
    THEN [done |-> TRUE,
          lines |-> << Line("Validator unavailable",
                            IF v.error # None THEN v.error
                            ELSE <<"vnu.jar or Java missing">>),
                       Line("Performing basic structural checks instead.", <<>>) >>]
    ELSE IF v.valid = "True"
    THEN [done |-> TRUE, lines |-> <<Line("Page is valid HTML5 (no errors)", <<>>)>>]
    ELSE IF v.valid = "False"
    THEN IF v.messages.t # "arr"
         THEN [done |-> FALSE, lines |-> <<>>]
         ELSE [done |-> TRUE,
               lines |-> << Line("Page has HTML5 issues",
                                 [i \in 1..Len(v.messages.items) |-> "|"]),
                            Line("Actionable tips:", <<>>) >>
                         \o [i \in 1..Len(v.messages.items) |->
                                Line("tip", TipText(v.messages.items[i]))]]
    ELSE [done |-> TRUE,
          lines |-> <<Line("Validation run but result unknown", v.error)>>]

\* update_ui, lines 281-392: what the callback leaves in the widgets
update_ui_render(results, url, decode_ok) ==
    IF "error" \in results.keys
    THEN [done |-> TRUE, preview |-> "No preview.",
          lines |-> <<Line("error", results.error)>>]
    ELSE LET v == RenderValidation(results.validation)
         IN  [done |-> v.done,
              preview |-> IF decode_ok THEN "image" ELSE "No preview.",
              lines |-> << Line("Website Audit", url),
                           Line("Audit Duration", <<>>),
                           Line("Estimated Page Load",
                                IF results.page_load_ms # 0 THEN <<"s">> ELSE <<"N/A">>),
                           Line("Structure", <<>>),
                           Line("SEO Essentials", <<>>),
                           Line("Robots Meta", <<>>),
                           Line("Image Alts", <<>>),
                           Line("OpenGraph Tags", <<>>),
                           Line("Twitter Cards", <<>>),
                           Line("HTML5 Validation & Actionables", <<>>) >>
                        \o v.lines]

(***************************************************************************)
(* State                                                                   *)
(***************************************************************************)
MaxAudits == 2

\* app launches, and the archive's length in chunks of 8192 bytes
MaxRuns == 2
ArchiveChunks == 2

\* the audit worker threads, in the order run_audit starts them; thread t's
\* browser session and temporary file are named t
Threads == 1..MaxAudits

VARIABLES
    robots_meta,     \* the page's robots meta content attribute, or None
    robots_arg,      \* the argument parse_robots_meta was called with
    robots_parsed,   \* its result, NotParsed before the call
    platform,        \* sys.platform: "win" or "posix"
    jar_file,        \* validator/vnu.jar: chunks it holds, -1 when absent
    url_entry,       \* the URL entry's text at the last press of Scan
    scan_button,     \* the Scan button's state
    status_label,    \* the status label's text
    output_box,      \* the report box: its lines
    preview_label,   \* the preview label
    after_queue,     \* callbacks root.after has queued for the event loop
    last_writer,     \* per widget, the thread that configured it last
    audits,          \* worker threads started so far
    aw,              \* the worker threads' positions and locals
    sessions,        \* browser sessions alive
    disk_tmp,        \* temporary .html files on disk
    part_file,       \* validator/vnu.jar.part: chunks it holds, -1 when absent
    part_handle,     \* the download thread's file object on it
    dl_pc,           \* the download thread's position
    downloaded,      \* download_vnu_jar's count of what it has written
    dl_total,        \* whether the response gave a content-length
    dl_ret,          \* download_vnu_jar's return value
    runs             \* app launches so far

robotsVars == <<robots_meta, robots_arg, robots_parsed>>
guiVars == <<url_entry, scan_button, status_label, output_box, preview_label,
             after_queue, last_writer>>
auditVars == <<platform, jar_file, audits, aw, sessions, disk_tmp>>

dlVars == <<part_file, part_handle, dl_pc, downloaded, dl_total, dl_ret, runs>>

vars == <<robotsVars, guiVars, auditVars, dlVars>>

NotParsed == [k \in RobotsKeys |-> "unset"]

Widgets == {"scan_button", "status_label", "output_box", "preview_label"}

NoReturn == [done |-> FALSE, ok |-> FALSE, err |-> None]

\* validate_with_vnu's locals before they are bound
NoProc == [done |-> FALSE, returncode |-> 0, stdout |-> <<>>, stderr |-> <<>>]
NoExc == [type |-> "none", msg |-> <<>>]
Unbound == <<"<unbound>">>

\* a worker thread that has not started: its position, the locals of
\* selenium_fetch, audit_website_selenium and validate_with_vnu, and whether
\* an exception is on its way out of validate_with_vnu (raising)
NoWorker ==
    [ pc |-> "unborn", url |-> <<>>, page_load_ms |-> 0, faults |-> {},
      results |-> NoResults, java_exec |-> Unbound, tmp_handle |-> "none",
      vnu_started |-> FALSE, proc |-> NoProc, exc |-> NoExc, raising |-> FALSE ]

\* App.__init__ has run: the widgets as it leaves them
GuiInit ==
    /\ url_entry = <<>>
    /\ scan_button = "normal"
    /\ status_label = "Ready"
    /\ output_box = <<>>
    /\ preview_label = "Preview will appear here."
    /\ after_queue = <<>>
    /\ last_writer = [w \in Widgets |-> "main"]

AuditInit ==
    /\ platform \in {"win", "posix"}
    /\ jar_file \in {-1, ArchiveChunks}
    /\ audits = 0
    /\ aw = [t \in Threads |-> NoWorker]
    /\ sessions = {}
    /\ disk_tmp = {}

RobotsIdle ==
    /\ robots_meta = None
    /\ robots_arg = None
    /\ robots_parsed = NotParsed

\* App.__init__, lines 255-257: the download thread starts where vnu.jar is
\* no file
DownloadInit ==
    /\ part_file = -1
    /\ part_handle = "none"
    /\ dl_pc = IF jar_file = -1 THEN "request" ELSE "off"
    /\ downloaded = 0
    /\ dl_total = FALSE
    /\ dl_ret = NoReturn
    /\ runs = 1

Init == RobotsIdle /\ GuiInit /\ AuditInit /\ DownloadInit

(***************************************************************************)
(* parse_robots_meta as a specification of its own                         *)
(***************************************************************************)
RobotsInit ==
    /\ robots_meta \in RobotsInputs
    /\ robots_arg = None
    /\ robots_parsed = NotParsed
    /\ GuiInit
    /\ platform = "posix"
    /\ jar_file = -1
    /\ audits = 0
    /\ aw = [t \in Threads |-> NoWorker]
    /\ sessions = {}
    /\ disk_tmp = {}
    /\ DownloadInit

\* parse_robots_meta called on the attribute value as it is (None included)
ParseRobots ==
    /\ robots_parsed = NotParsed
    /\ robots_arg' = robots_meta
    /\ robots_parsed' = parse_robots_meta(robots_meta)
    /\ UNCHANGED <<robots_meta, guiVars, auditVars, dlVars>>

\* audit_website_selenium's call: a missing or empty attribute becomes ""
AuditRobots ==
    /\ robots_parsed = NotParsed
    /\ robots_arg' = robots_content_of(robots_meta)
    /\ robots_parsed' = parse_robots_meta(robots_content_of(robots_meta))
    /\ UNCHANGED <<robots_meta, guiVars, auditVars, dlVars>>

RobotsNext == ParseRobots \/ AuditRobots

SpecRobots == RobotsInit /\ [][RobotsNext]_vars

(***************************************************************************)
(* The application: the Scan button, the audit worker, the event loop      *)
(***************************************************************************)
\* last_writer after thread kind who has configured the widgets ws
Writers(ws, who) == [w \in Widgets |-> IF w \in ws THEN who ELSE last_writer[w]]

\* run_audit with line 403 left out: the button stays enabled
run_audit_nodisable(text) ==
    /\ scan_button = "normal"
    /\ Strip(text) = <<>> \/ audits < MaxAudits
    /\ url_entry' = text
    /\ IF Strip(text) = <<>>
       THEN UNCHANGED <<scan_button, status_label, last_writer, audits, aw>>
       ELSE /\ scan_button' = scan_button
            /\ status_label' = "Queued - starting audit..."
            /\ last_writer' = Writers({"status_label"}, "main")
            /\ audits' = audits + 1
            /\ aw' = [aw EXCEPT ![audits + 1] =
                        [NoWorker EXCEPT !.pc = "run_audit_thread",
                                         !.url = normalize_url(Strip(text))]]
    /\ UNCHANGED <<output_box, preview_label, after_queue, platform, jar_file,
                   sessions, disk_tmp, robotsVars, dlVars>>

\* App.run_audit, the Scan button's command, pressed with text in the entry.
\* Tk runs the command of an enabled button only.
run_audit(text) ==
    /\ scan_button = "normal"
    /\ Strip(text) = <<>> \/ audits < MaxAudits
    /\ url_entry' = text
    /\ IF Strip(text) = <<>>
       THEN UNCHANGED <<scan_button, status_label, last_writer, audits, aw>>
       ELSE /\ scan_button' = "disabled"
            /\ status_label' = "Queued - starting audit..."
            /\ last_writer' = Writers({"scan_button", "status_label"}, "main")
            /\ audits' = audits + 1
            /\ aw' = [aw EXCEPT ![audits + 1] =
                        [NoWorker EXCEPT !.pc = "run_audit_thread",
                                         !.url = normalize_url(Strip(text))]]
    /\ UNCHANGED <<output_box, preview_label, after_queue, platform, jar_file,
                   sessions, disk_tmp, robotsVars, dlVars>>

\* what a step of worker t leaves alone besides aw
WorkerFrame == <<url_entry, scan_button, output_box, preview_label, after_queue,
                 platform, jar_file, audits, robotsVars, dlVars>>

\* App.run_audit_thread, line 278, on the worker thread
run_audit_thread(t) ==
    /\ aw[t].pc = "run_audit_thread"
    /\ status_label' = "Running audit..."
    /\ last_writer' = Writers({"status_label"}, "worker")
    /\ aw' = [aw EXCEPT ![t].pc = "start_driver"]
    /\ UNCHANGED <<WorkerFrame, sessions, disk_tmp>>

\* selenium_fetch raises at the call named fault: audit_website_selenium's
\* except clause makes the result, and run_audit_thread goes on to line 394
FetchRaises(t, fault) ==
    aw' = [aw EXCEPT ![t].pc = "schedule_ui",
                     ![t].faults = @ \cup {fault},
                     ![t].results = audit_fetch_failed(FetchErrors[fault])]

\* selenium_fetch, line 146: webdriver.Chrome(options)
fetch_start_driver(t) ==
    /\ aw[t].pc = "start_driver"
    /\ \/ /\ sessions' = sessions \cup {t}
          /\ aw' = [aw EXCEPT ![t].pc = "get"]
       \/ /\ FetchRaises(t, "driver_start")
          /\ UNCHANGED sessions
    /\ UNCHANGED <<WorkerFrame, status_label, last_writer, disk_tmp>>

\* selenium_fetch, lines 147-149: driver.get(url)
fetch_get(t) ==
    /\ aw[t].pc = "get"
    /\ \/ aw' = [aw EXCEPT ![t].pc = "timing"]
       \/ FetchRaises(t, "navigation")
    /\ UNCHANGED <<WorkerFrame, status_label, last_writer, sessions, disk_tmp>>

\* selenium_fetch, lines 150-156: the navigation-timing script
fetch_timing(t, in) ==
    /\ aw[t].pc = "timing"
    /\ \/ \E perf \in in.perf :
            aw' = [aw EXCEPT ![t].pc = "page_source",
                             ![t].page_load_ms = page_load_of(perf)]
       \/ aw' = [aw EXCEPT ![t].pc = "page_source",
                           ![t].page_load_ms = 0,
                           ![t].faults = @ \cup {"timing"}]
    /\ UNCHANGED <<WorkerFrame, status_label, last_writer, sessions, disk_tmp>>

\* selenium_fetch, line 157: driver.page_source
fetch_page_source(t) ==
    /\ aw[t].pc = "page_source"
    /\ \/ aw' = [aw EXCEPT ![t].pc = "screenshot"]
       \/ FetchRaises(t, "page_source")
    /\ UNCHANGED <<WorkerFrame, status_label, last_writer, sessions, disk_tmp>>

\* selenium_fetch, lines 158-159: driver.save_screenshot
fetch_screenshot(t) ==
    /\ aw[t].pc = "screenshot"
    /\ \/ aw' = [aw EXCEPT ![t].pc = "quit"]
       \/ FetchRaises(t, "screenshot")
    /\ UNCHANGED <<WorkerFrame, status_label, last_writer, sessions, disk_tmp>>

\* selenium_fetch, lines 160-162: driver.quit() and the return
fetch_quit(t) ==
    /\ aw[t].pc = "quit"
    /\ sessions' = sessions \ {t}
    /\ aw' = [aw EXCEPT ![t].pc = "analyze"]
    /\ UNCHANGED <<WorkerFrame, status_label, last_writer, disk_tmp>>

\* audit_website_selenium, lines 184-208: the fetch's values and the analyzer
analyze(t) ==
    /\ aw[t].pc = "analyze"
    /\ aw' = [aw EXCEPT ![t].pc = "vnu_isfile",
                        ![t].results = [NoResults EXCEPT
                            !.keys = FetchKeys \cup AnalyzerKeys,
                            !.page_load_ms = aw[t].page_load_ms]]
    /\ UNCHANGED <<WorkerFrame, status_label, last_writer, sessions, disk_tmp>>

\* validate_with_vnu, lines 95-96; its early return is stored by line 209
vnu_check_jar(t) ==
    /\ aw[t].pc = "vnu_isfile"
    /\ IF jar_file = -1
       THEN aw' = [aw EXCEPT
               ![t].pc = "schedule_ui",
               ![t].results.validation =
                   Validation("False", "None", JArr(<<>>), <<"vnu.jar not found.">>),
               ![t].results.keys = @ \cup {"html5_validation"}]
       ELSE aw' = [aw EXCEPT ![t].pc = "vnu_java"]
    /\ UNCHANGED <<WorkerFrame, status_label, last_writer, sessions, disk_tmp>>

\* validate_with_vnu, lines 97-99
vnu_find_java(t) ==
    /\ aw[t].pc = "vnu_java"
    /\ \E embedded_ok \in BOOLEAN, system_runs \in BOOLEAN :
         LET java == find_java_executable(embedded_ok, system_runs)
         IN  IF java = None
             THEN aw' = [aw EXCEPT
                     ![t].pc = "schedule_ui",
                     ![t].java_exec = java,
                     ![t].results.validation =
                         Validation("False", "None", JArr(<<>>),
                                    <<"Java runtime not found.">>),
                     ![t].results.keys = @ \cup {"html5_validation"}]
             ELSE aw' = [aw EXCEPT ![t].pc = "vnu_tmp", ![t].java_exec = java]
    /\ UNCHANGED <<WorkerFrame, status_label, last_writer, sessions, disk_tmp>>

\* an exception in validate_with_vnu's try block: the except clauses choose
\* the result, then the finally clause runs
VnuRaises(t, exc) ==
    aw' = [aw EXCEPT ![t].pc = "vnu_finally",
                     ![t].exc = exc,
                     ![t].raising = vnu_except(exc).raised,
                     ![t].results.validation = vnu_except(exc).result]

\* validate_with_vnu, line 102: tempfile.NamedTemporaryFile(delete=False)
vnu_create_tmp(t, in) ==
    /\ aw[t].pc = "vnu_tmp"
    /\ \/ /\ disk_tmp' = disk_tmp \cup {t}
          /\ aw' = [aw EXCEPT ![t].pc = "vnu_write", ![t].tmp_handle = "open"]
       \/ /\ \E exc \in in.create_errors : VnuRaises(t, exc)
          /\ UNCHANGED disk_tmp
    /\ UNCHANGED <<WorkerFrame, status_label, last_writer, sessions>>

\* validate_with_vnu, lines 103-104: encode, write, close
vnu_write(t, in) ==
    /\ aw[t].pc = "vnu_write"
    /\ \/ aw' = [aw EXCEPT ![t].pc = "vnu_run", ![t].tmp_handle = "closed"]
       \/ \E exc \in in.write_errors : VnuRaises(t, exc)
    /\ UNCHANGED <<WorkerFrame, status_label, last_writer, sessions, disk_tmp>>

\* validate_with_vnu, lines 105-124: the subprocess and the reading of it
vnu_run(t, in) ==
    /\ aw[t].pc = "vnu_run"
    /\ \/ \E rc \in in.rc, out \in in.out, err \in in.err :
            aw' = [aw EXCEPT ![t].pc = "vnu_finally",
                             ![t].vnu_started = TRUE,
                             ![t].proc = [done |-> TRUE, returncode |-> rc,
                                          stdout |-> out, stderr |-> err],
                             ![t].results.validation = vnu_interpret(rc, out, err)]
       \/ \E exc \in in.run_errors :
            aw' = [aw EXCEPT ![t].pc = "vnu_finally",
                             ![t].vnu_started = TRUE,
                             ![t].exc = exc,
                             ![t].raising = vnu_except(exc).raised,
                             ![t].results.validation = vnu_except(exc).result]
    /\ UNCHANGED <<WorkerFrame, status_label, last_writer, sessions, disk_tmp>>

\* validate_with_vnu, lines 129-134, and its return into line 209.  The file
\* object dies with the call, which closes a handle left open.
vnu_finally(t) ==
    /\ aw[t].pc = "vnu_finally"
    /\ disk_tmp' = IF aw[t].tmp_handle # "none" /\ unlink_ok(platform, aw[t].tmp_handle)
                   THEN disk_tmp \ {t}
                   ELSE disk_tmp
    /\ aw' = [aw EXCEPT
                ![t].pc = IF aw[t].raising THEN "wrapper_finally" ELSE "schedule_ui",
                ![t].tmp_handle = IF @ = "open" THEN "closed" ELSE @,
                ![t].results.keys = IF aw[t].raising THEN @
                                    ELSE @ \cup {"html5_validation"}]
    /\ UNCHANGED <<WorkerFrame, status_label, last_writer, sessions>>

\* App.run_audit_thread, line 394: root.after(0, update_ui)
schedule_ui(t) ==
    /\ aw[t].pc = "schedule_ui"
    /\ after_queue' = Append(after_queue, [results |-> aw[t].results, url |-> aw[t].url])
    /\ aw' = [aw EXCEPT ![t].pc = "wrapper_finally"]
    /\ UNCHANGED <<url_entry, scan_button, status_label, output_box, preview_label,
                   last_writer, platform, jar_file, audits, sessions, disk_tmp,
                   robotsVars, dlVars>>

\* run_audit's wrapper, lines 408-410, on the worker thread; the thread ends
wrapper_finally(t) ==
    /\ aw[t].pc = "wrapper_finally"
    /\ scan_button' = "normal"
    /\ last_writer' = Writers({"scan_button"}, "worker")
    /\ aw' = [aw EXCEPT ![t] = [NoWorker EXCEPT !.pc = "done"]]
    /\ UNCHANGED <<url_entry, status_label, output_box, preview_label, after_queue,
                   platform, jar_file, audits, sessions, disk_tmp, robotsVars, dlVars>>

\* update_ui, run by the event loop on the main thread.  Where it raises
\* (done is FALSE) Tk reports the exception and the status text is not reset.
update_ui(in) ==
    /\ after_queue # <<>>
    /\ \E decode_ok \in in.decode :
         LET cb == Head(after_queue)
             r == update_ui_render(cb.results, cb.url, decode_ok)
         IN  /\ output_box' = r.lines
             /\ preview_label' = r.preview
             /\ status_label' = IF r.done THEN "Ready" ELSE status_label
             /\ last_writer' = Writers({"output_box", "preview_label"}
                                       \cup (IF r.done THEN {"status_label"} ELSE {}),
                                       "main")
    /\ after_queue' = Tail(after_queue)
    /\ UNCHANGED <<url_entry, scan_button, auditVars, robotsVars, dlVars>>

Worker(t, in) ==
    \/ run_audit_thread(t)
    \/ fetch_start_driver(t) \/ fetch_get(t) \/ fetch_timing(t, in)
    \/ fetch_page_source(t) \/ fetch_screenshot(t) \/ fetch_quit(t)
    \/ analyze(t)
    \/ vnu_check_jar(t) \/ vnu_find_java(t) \/ vnu_create_tmp(t, in)
    \/ vnu_write(t, in) \/ vnu_run(t, in) \/ vnu_finally(t)
    \/ schedule_ui(t) \/ wrapper_finally(t)

\* the texts of the URL entry in the runs of several audits
FewUrlInputs == {<<>>, S_host}

\* the application, through MaxAudits presses of Scan
Next ==
    \/ \E text \in FewUrlInputs : run_audit(text)
    \/ \E t \in Threads : Worker(t, FewInputs)
    \/ update_ui(FewInputs)

Spec == Init /\ [][Next]_vars

\* the application through its first audit, on every input
AuditNext ==
    \/ \E text \in UrlInputs : audits = 0 /\ run_audit(text)
    \/ \E t \in Threads : Worker(t, AllInputs)
    \/ update_ui(AllInputs)

SpecAudit == Init /\ [][AuditNext]_vars

(***************************************************************************)
(* download_vnu_jar on the download thread, and the app's launches         *)
(***************************************************************************)
\* what download_vnu_jar's try block may raise, by the call that raised
DownloadErrors ==
    [ request |-> <<"ConnectionError: connection refused">>,
      status  |-> <<"HTTPError: 404 Client Error">>,
      open    |-> <<"PermissionError: vnu.jar.part">>,
      chunk   |-> <<"ChunkedEncodingError: connection broken">>,
      write   |-> <<"OSError: No space left on device">>,
      move    |-> <<"PermissionError: vnu.jar">> ]

\* open(tmp_path, "ab"): what an existing file holds is kept
open_ab(file) == IF file = -1 THEN 0 ELSE file

\* line 68, open(tmp_path, "wb"): the chunks the file holds once opened,
\* whatever it held
open_wb(file) == 0

\* what a step of the download thread leaves alone besides dlVars
DownloadFrame == <<robotsVars, url_entry, scan_button, output_box, preview_label,
                   after_queue, platform, audits, aw, sessions, disk_tmp, runs>>

\* an exception at the call named at: the with blocks close the file on the
\* way out and the except clause of line 82 takes over
DownloadRaises(at) ==
    /\ dl_pc' = "except"
    /\ dl_ret' = [done |-> FALSE, ok |-> FALSE, err |-> DownloadErrors[at]]
    /\ part_handle' = IF part_handle = "open" THEN "closed" ELSE part_handle

\* download_vnu_jar, lines 62-66: the request and its status
download_request ==
    /\ dl_pc = "request"
    /\ \/ /\ dl_pc' = "open"
          /\ dl_total' \in BOOLEAN
          /\ UNCHANGED <<dl_ret, part_handle>>
       \/ /\ DownloadRaises("request")
          /\ UNCHANGED dl_total
       \/ /\ DownloadRaises("status")
          /\ UNCHANGED dl_total
    /\ UNCHANGED <<DownloadFrame, status_label, last_writer, jar_file, part_file,
                   downloaded>>

\* download_vnu_jar, lines 67-69: the .part file is opened for writing
download_open ==
    /\ dl_pc = "open"
    /\ \/ /\ dl_pc' = "loop"
          /\ part_file' = open_wb(part_file)
          /\ part_handle' = "open"
          /\ downloaded' = 0
          /\ UNCHANGED dl_ret
       \/ /\ DownloadRaises("open")
          /\ UNCHANGED <<part_file, downloaded>>
    /\ UNCHANGED <<DownloadFrame, status_label, last_writer, jar_file, dl_total>>

\* download_vnu_jar, lines 70-79: one chunk of the response, written, counted
\* and reported through progress_cb (lines 260-265, on the download thread);
\* the figure in the status text is left out
download_chunk ==
    /\ dl_pc = "loop"
    /\ downloaded < ArchiveChunks
    /\ \/ /\ part_file' = part_file + 1
          /\ downloaded' = downloaded + 1
          /\ status_label' = IF dl_total THEN "Downloading vnu.jar (%)"
                             ELSE "Downloading vnu.jar (bytes)"
          /\ last_writer' = Writers({"status_label"}, "download")
          /\ UNCHANGED <<dl_pc, dl_ret, part_handle>>
       \/ /\ DownloadRaises("chunk")
          /\ UNCHANGED <<part_file, downloaded, status_label, last_writer>>
       \/ /\ DownloadRaises("write")
          /\ UNCHANGED <<part_file, downloaded, status_label, last_writer>>
    /\ UNCHANGED <<DownloadFrame, jar_file, dl_total>>

\* download_vnu_jar, lines 80-81: the response has ended, the file is closed
\* and moved to vnu.jar
download_move ==
    /\ dl_pc = "loop"
    /\ downloaded = ArchiveChunks
    /\ \/ /\ jar_file' = part_file
          /\ part_file' = -1
          /\ part_handle' = "closed"
          /\ dl_ret' = [done |-> TRUE, ok |-> TRUE, err |-> None]
          /\ dl_pc' = "returned"
       \/ /\ DownloadRaises("move")
          /\ UNCHANGED <<jar_file, part_file>>
    /\ UNCHANGED <<DownloadFrame, status_label, last_writer, downloaded, dl_total>>

\* download_vnu_jar, lines 82-89: the .part file is removed if it is there
\* (a failure to remove it is passed over) and the error is returned
download_except ==
    /\ dl_pc = "except"
    /\ part_file' = IF part_file # -1 /\ unlink_ok(platform, part_handle)
                    THEN -1 ELSE part_file
    /\ dl_ret' = [dl_ret EXCEPT !.done = TRUE]
    /\ dl_pc' = "returned"
    /\ UNCHANGED <<DownloadFrame, status_label, last_writer, jar_file, part_handle,
                   downloaded, dl_total>>

\* do_download, lines 268-273, on the download thread; the thread ends
do_download_report ==
    /\ dl_pc = "returned"
    /\ status_label' = IF dl_ret.ok THEN "vnu.jar downloaded - full HTML5 validation available"
                       ELSE "vnu.jar download failed"
    /\ last_writer' = Writers({"status_label"}, "download")
    /\ dl_pc' = "ended"
    /\ UNCHANGED <<DownloadFrame, jar_file, part_file, part_handle, downloaded,
                   dl_total, dl_ret>>

\* The window is closed and the app launched again: the daemon threads die
\* where they stand, the files stay, and App.__init__ runs (lines 216-257).
\* Launches are counted here for the downloads; no audit is under way.
Relaunch ==
    /\ runs < MaxRuns
    /\ \A t \in Threads : aw[t].pc = "unborn"
    /\ runs' = runs + 1
    /\ part_handle' = "none"
    /\ dl_pc' = IF jar_file = -1 THEN "request" ELSE "off"
    /\ downloaded' = 0
    /\ dl_total' = FALSE
    /\ dl_ret' = NoReturn
    /\ url_entry' = <<>>
    /\ scan_button' = "normal"
    /\ status_label' = "Ready"
    /\ output_box' = <<>>
    /\ preview_label' = "Preview will appear here."
    /\ after_queue' = <<>>
    /\ last_writer' = [w \in Widgets |-> "main"]
    /\ UNCHANGED <<robotsVars, auditVars, part_file>>

DownloadNext ==
    \/ download_request \/ download_open \/ download_chunk \/ download_move
    \/ download_except \/ do_download_report
    \/ Relaunch

SpecDownload == Init /\ [][DownloadNext]_vars

(***************************************************************************)
(* The Scan button and its worker, an audit that raises included           *)
(***************************************************************************)
\* audit_website_selenium, lines 189-208, raising (the parser or a lookup
\* throws, memory runs out): the exception leaves audit_website_selenium and
\* run_audit_thread, line 394 is not reached, and the wrapper's finally
\* clause takes over
analyze_raises(t) ==
    /\ aw[t].pc = "analyze"
    /\ aw' = [aw EXCEPT ![t].pc = "wrapper_finally",
                        ![t].faults = @ \cup {"analyzer"},
                        ![t].raising = TRUE]
    /\ UNCHANGED <<WorkerFrame, status_label, last_writer, sessions, disk_tmp>>

\* one step of worker thread t, from line 405 to the end of the wrapper
WorkerStep(t) == Worker(t, FewInputs) \/ analyze_raises(t)

\* the application, through MaxAudits presses of Scan, where an audit may raise
ScanNext ==
    \/ \E text \in FewUrlInputs : run_audit(text)
    \/ \E t \in Threads : Worker(t, FewInputs)
    \/ \E t \in Threads : analyze_raises(t)
    \/ update_ui(FewInputs)

\* A started thread is scheduled, and each of its steps is a call that
\* returns or raises in bounded time (the driver's own timeouts, timeout=3 at
\* line 52, VNU_RUN_TIMEOUT at line 111, the sleep of line 409).
SpecScan == Init /\ [][ScanNext]_vars /\ \A t \in Threads : WF_vars(WorkerStep(t))

(***************************************************************************)
(* Properties                                                              *)
(***************************************************************************)
\* worker t's call of audit_website_selenium has returned (run_audit_thread is
\* at line 394 or past it)
AuditReturned(t) == aw[t].pc \in {"schedule_ui", "wrapper_finally"}

\* the text validate_with_vnu reads the diagnostics from (line 115)
RawOf(proc) ==
    IF Strip(proc.stderr) # <<>> THEN Strip(proc.stderr) ELSE Strip(proc.stdout)

\* C1: every browser session alive belongs to a worker that is still inside
\* selenium_fetch, past the start of its driver: once control has left
\* selenium_fetch, by return or by exception, the session has been quit.
C1_SessionQuitOnEveryExit ==
    \A t \in sessions :
        aw[t].pc \in {"get", "timing", "page_source", "screenshot", "quit"}

\* C2: for a validator subprocess that ran to its end, exit code 0 gives
\* valid=True and no messages, and a nonzero exit code with output that
\* parses as JSON gives valid=False and a non-empty list of messages.
C2_ExitCodeDecidesValidity ==
    \A t \in Threads :
        LET w == aw[t]
            v == w.results.validation
        IN  w.proc.done /\ AuditReturned(t) =>
              /\ w.proc.returncode = 0 =>
                    v.valid = "True" /\ v.messages = JArr(<<>>)
              /\ w.proc.returncode # 0 /\ json_loads(RawOf(w.proc)).ok =>
                    /\ v.valid = "False"
                    /\ v.messages.t = "arr"
                    /\ v.messages.items # <<>>

\* C3: for a subprocess that exited nonzero with output that is no JSON text,
\* validate_with_vnu returns (it does not raise) available=True, valid=False,
\* error=None and exactly one message, of type "error", whose text is the raw
\* output.
C3_MalformedOutputOneSyntheticRecord ==
    \A t \in Threads :
        LET w == aw[t]
            v == w.results.validation
            raw == RawOf(w.proc)
        IN  /\ w.proc.done /\ w.proc.returncode # 0 /\ ~json_loads(raw).ok =>
                ~w.raising
            /\ w.proc.done /\ AuditReturned(t) /\ w.proc.returncode # 0
                 /\ ~json_loads(raw).ok =>
                /\ "html5_validation" \in w.results.keys
                /\ v.available = "True"
                /\ v.valid = "False"
                /\ v.error = None
                /\ v.messages.t = "arr"
                /\ Len(v.messages.items) = 1
                /\ v.messages.items[1] =
                       JObj(<<"'type'", "'message'">>, <<JStr(<<"'error'">>), JStr(raw)>>)

\* C3's case: a call has returned from a nonzero exit with non-empty output
\* that is no JSON
C3_Witness ==
    \E t \in Threads :
        /\ aw[t].proc.done /\ AuditReturned(t)
        /\ aw[t].proc.returncode # 0
        /\ RawOf(aw[t].proc) # <<>>
        /\ ~json_loads(RawOf(aw[t].proc)).ok

\* C4: no widget is ever configured from a thread other than the main thread
\* (every update of a worker or of the download thread goes through root.after).
C4_WidgetsConfiguredOnMainThreadOnly ==
    \A w \in Widgets : last_writer[w] = "main"

\* C5: once download_vnu_jar has returned a failure no vnu.jar.part is left
\* and an error text is returned; the .part file an attempt writes holds what
\* this attempt has downloaded and nothing older (it starts empty, whatever
\* an earlier attempt left); and vnu.jar, where it exists, is the whole archive.
C5_FailedDownloadLeavesNoPart ==
    /\ dl_ret.done /\ ~dl_ret.ok => part_file = -1 /\ dl_ret.err # None
    /\ dl_pc = "loop" => part_file = downloaded
    /\ jar_file \in {-1, ArchiveChunks}

\* C5's case: on a later launch, a download has failed after writing chunks
C5_Witness ==
    /\ runs > 1
    /\ dl_ret.done /\ ~dl_ret.ok
    /\ downloaded > 0
    /\ jar_file = -1

\* the failures that make selenium_fetch raise
FatalFaults == {"driver_start", "navigation", "page_source", "screenshot"}

\* C6 as claimed: an audit in which the driver could not start, navigation
\* threw or the timing script threw returns the error alone, and the
\* validator has not run.
C6_TimingFaultIsFetchFailure ==
    \A t \in Threads :
        AuditReturned(t)
          /\ aw[t].faults \cap {"driver_start", "navigation", "timing"} # {} =>
            /\ aw[t].results.keys = {"error"}
            /\ ~aw[t].vnu_started

\* C6 as amended: an audit whose selenium_fetch raised (driver start,
\* navigation, page source, screenshot) returns the error alone, with no
\* analyzer value and no validation, and validate_with_vnu was not entered; a
\* timing script that throws is absorbed (the load estimate is None, the
\* audit goes on to a report); a queued result with an error holds the error
\* alone; and update_ui renders such a result as the error text alone.
C6_FetchFailureIsErrorOnly ==
    /\ [](\A t \in Threads :
            AuditReturned(t) /\ ~aw[t].raising =>
              /\ aw[t].faults \cap FatalFaults # {} =>
                    /\ aw[t].results.keys = {"error"}
                    /\ aw[t].results.error # None
                    /\ aw[t].results.validation = NoValidation
                    /\ aw[t].java_exec = Unbound
                    /\ ~aw[t].vnu_started
              /\ aw[t].faults \cap FatalFaults = {} =>
                    /\ "error" \notin aw[t].results.keys
                    /\ AnalyzerKeys \subseteq aw[t].results.keys
                    /\ "timing" \in aw[t].faults => aw[t].results.page_load_ms = 0)
    /\ [](\A i \in 1..Len(after_queue) :
            "error" \in after_queue[i].results.keys =>
                after_queue[i].results.keys = {"error"})
    /\ [][after_queue # <<>> /\ after_queue' = Tail(after_queue)
            /\ "error" \in Head(after_queue).results.keys =>
                output_box' = <<Line("error", Head(after_queue).results.error)>>]_vars

\* C6's case: the report box shows the error of a failed fetch, alone
C6_Witness ==
    /\ Len(output_box) = 1
    /\ output_box[1].line = "error"
    /\ \E t \in Threads : aw[t].pc = "wrapper_finally" /\ aw[t].faults = {"navigation"}

\* C7: validate_with_vnu never raises, and an audit whose fetch succeeded
\* returns every fetch and analyzer value and a validation result: with
\* vnu.jar or Java missing, available=False, valid=None, no messages, an
\* error text, and no subprocess started; after a timeout, available=True,
\* valid=None, no messages and the timeout text; after any other failure to
\* run, available=True, valid=None, no messages and the exception's text.
C7_ValidatorNeverBreaksAudit ==
    \A t \in Threads :
        LET w == aw[t]
            v == w.results.validation
        IN  /\ ~w.raising
            /\ w.pc = "wrapper_finally" /\ w.faults \cap FatalFaults = {} =>
                    AuditReturned(t) /\ "html5_validation" \in w.results.keys
            /\ AuditReturned(t) /\ "error" \notin w.results.keys =>
                /\ FetchKeys \cup AnalyzerKeys \cup {"html5_validation"}
                        \subseteq w.results.keys
                /\ jar_file = -1 \/ w.java_exec = None =>
                    /\ v.available = "False" /\ v.valid = "None"
                    /\ v.messages = JArr(<<>>)
                    /\ v.error # None
                    /\ ~w.vnu_started
                /\ w.exc.type = "TimeoutExpired" =>
                    v = Validation("True", "None", JArr(<<>>), <<"Validation timed out.">>)
                /\ w.exc.type \notin {"none", "TimeoutExpired"} =>
                    v = Validation("True", "None", JArr(<<>>), w.exc.msg)

\* C7's case: the validator subprocess could not be executed and the audit
\* has returned
C7_Witness ==
    \E t \in Threads :
        /\ AuditReturned(t)
        /\ aw[t].vnu_started
        /\ aw[t].exc.type = "OSError"
        /\ AnalyzerKeys \subseteq aw[t].results.keys

\* C8: once validate_with_vnu has returned, the temporary file it created is
\* no longer on disk.
C8_TempFileRemovedOnEveryReturn ==
    \A t \in Threads :
        aw[t].pc \in {"schedule_ui", "wrapper_finally", "done"} => t \notin disk_tmp

\* http://example.org, ftp://example.org: letters, then ://
HasScheme(url) ==
    \E i \in 2..(Len(url) - 2) :
        /\ SubSeq(url, i, i + 2) = <<":", "/", "/">>
        /\ \A k \in 1..(i - 1) :
              \E n \in 1..Len(LowerLetters) : LowerLetters[n] = LowerChar(url[k])

\* C9: the URL a worker audits is the entry's stripped text, prefixed with
\* http:// where that text has no scheme and unchanged where it has one.
C9_SchemelessInputGetsHttpPrefix ==
    \A t \in Threads :
        aw[t].pc \notin {"unborn", "done"} =>
            aw[t].url = IF HasScheme(Strip(url_entry)) THEN Strip(url_entry)
                        ELSE S_httpPrefix \o Strip(url_entry)

\* s holds the directive tok at some position, in any letter case
HasDirective(s, tok) ==
    \E i \in 1..Len(s) :
        \A k \in 1..Len(tok) :
            i + k - 1 <= Len(s) /\ LowerChar(s[i + k - 1]) = tok[k]

\* C10: parse_robots_meta gives Indexing "Disallowed" where the content holds
\* noindex (in any letter case) and "Allowed" where it does not, the same for
\* nofollow with Following Links and nosnippet with Snippets; empty or
\* missing content gives "Allowed" three times and Image Previews
\* "Not specified".
C10_RobotsDirectivesBySubstring ==
    robots_parsed # NotParsed =>
        LET c == IF robots_arg = None THEN <<>> ELSE robots_arg
            Verdict(tok) == IF HasDirective(c, tok) THEN "Disallowed" ELSE "Allowed"
        IN  /\ robots_parsed["Indexing"] = Verdict(S_noindex)
            /\ robots_parsed["Following Links"] = Verdict(S_nofollow)
            /\ robots_parsed["Snippets"] = Verdict(S_nosnippet)
            /\ c = <<>> =>
                /\ robots_parsed["Indexing"] = "Allowed"
                /\ robots_parsed["Following Links"] = "Allowed"
                /\ robots_parsed["Snippets"] = "Allowed"
                /\ robots_parsed["Image Previews"] = "Not specified"

\* C10's case: content whose noindex is not in lower case, with no nofollow
C10_Witness ==
    /\ robots_parsed # NotParsed
    /\ robots_arg # None
    /\ HasDirective(robots_arg, S_noindex)
    /\ ~Contains(robots_arg, S_noindex)
    /\ robots_parsed["Indexing"] = "Disallowed"
    /\ robots_parsed["Following Links"] = "Allowed"

\* the worker threads that exist: started and not ended
LiveWorkers == {t \in Threads : aw[t].pc \notin {"unborn", "done"}}

\* C11: at most one audit worker thread exists at any time, and the Scan
\* button is disabled exactly while one exists; a press of Scan that is
\* accepted (the entry holds a URL) disables the button and starts exactly one
\* worker, and a press on an empty entry starts none; the button goes back to
\* enabled only in the step that ends the worker, after its audit has
\* returned or raised; and a disabled button is enabled again on every path
\* the worker takes, an audit that raises included.
C11_OneWorkerAndButtonReenabled ==
    /\ [](/\ Cardinality(LiveWorkers) <= 1
          /\ scan_button = "disabled" <=> LiveWorkers # {}
          /\ Cardinality({t \in Threads : aw[t].pc # "unborn"}) = audits)
    /\ [][/\ url_entry' # url_entry \/ audits' # audits =>
                IF Strip(url_entry') = <<>>
                THEN audits' = audits /\ aw' = aw /\ scan_button' = scan_button
                ELSE /\ audits' = audits + 1
                     /\ scan_button = "normal" /\ scan_button' = "disabled"
                     /\ LiveWorkers = {} /\ LiveWorkers' = {audits'}
                     /\ aw'[audits'].pc = "run_audit_thread"
           /\ scan_button = "disabled" /\ scan_button' = "normal" =>
                \E t \in Threads :
                    /\ aw[t].pc = "wrapper_finally" /\ aw'[t].pc = "done"
                    /\ LiveWorkers = {t}]_vars
    /\ (scan_button = "disabled") ~> (scan_button = "normal")

\* C11's case: the audit of the second press raised, its worker has ended
\* without a report queued, and the button is enabled again
C11_Witness ==
    /\ audits = 2
    /\ aw[2].pc = "done"
    /\ scan_button = "normal"
    /\ last_writer["scan_button"] = "worker"
    /\ status_label = "Running audit..."
    /\ after_queue = <<>>

=============================================================================
